---- MODULE Spec2Model ----
(***************************************************************************)
(* awen: website downtime notifier (src/index.js and its notifier modules  *)
(* under src/notifiers/).  The model follows the module body of index.js   *)
(* (configuration loading, validation, selection of the enabled            *)
(* notifiers), startMonitoring, checkWebsite and sendNotification, and the *)
(* send functions of the pushbullet and discord notifier modules.          *)
(*                                                                         *)
(* JavaScript values are tagged records [t, v]; strings whose characters   *)
(* the code inspects (URLs, CHECK_INTERVAL_MS) are sequences of one-       *)
(* character strings.                                                      *)
(***************************************************************************)
EXTENDS Integers, Sequences, FiniteSets, TLC

\* ------------------------------------------------------------------ bounds
\* Number of probes (calls of checkWebsite) one run of the model starts.
MaxProbes == 3
\* Number of probes whose HTTP request may be outstanding at the same time.
MaxInFlight == 2

\* --------------------------------------------------------- JavaScript values
Undefined == [t |-> "undefined", v |-> 0]
NaN == [t |-> "NaN", v |-> 0]
JStr(s) == [t |-> "string", v |-> s]
JNum(n) == [t |-> "number", v |-> n]
JObj(o) == [t |-> "object", v |-> o]

\* typeof x
TypeOf(x) == IF x.t = "NaN" THEN "number" ELSE x.t

\* ToBoolean(x): the values that `||` and `if (...)` treat as false.
Falsy(x) ==
    \/ x.t = "undefined"
    \/ x.t = "NaN"
    \/ (x.t = "string" /\ x.v = <<>>)
    \/ (x.t = "number" /\ x.v = 0)

\* a || b
OrElse(a, b) == IF Falsy(a) THEN b ELSE a

\* s.startsWith(prefix), on sequences of characters
StartsWith(s, prefix) ==
    /\ Len(s) >= Len(prefix)
    /\ SubSeq(s, 1, Len(prefix)) = prefix

Digits == <<"0", "1", "2", "3", "4", "5", "6", "7", "8", "9">>
IsDigit(c) == \E d \in 1..10 : Digits[d] = c
DigitValue(c) == (CHOOSE d \in 1..10 : Digits[d] = c) - 1

\* The value of the longest prefix of s made of decimal digits, continuing
\* from the value acc of the digits already read.
RECURSIVE LeadingDigits(_, _)
LeadingDigits(s, acc) ==
    IF s = <<>> \/ ~IsDigit(Head(s))
    THEN acc
    ELSE LeadingDigits(Tail(s), 10 * acc + DigitValue(Head(s)))

\* parseInt(s, 10): an optional sign, then the leading decimal digits; NaN
\* when no digit follows the sign.
ParseInt(s) ==
    LET neg == s /= <<>> /\ Head(s) = "-"
        signed == s /= <<>> /\ Head(s) \in {"-", "+"}
        rest == IF signed THEN Tail(s) ELSE s
    IN  IF rest = <<>> \/ ~IsDigit(Head(rest))
        THEN NaN
        ELSE JNum((IF neg THEN -1 ELSE 1) * LeadingDigits(rest, 0))

\* ------------------------------------------------------------------- strings
HTTP == <<"h", "t", "t", "p">>
\* 'https://example.com', the default of URL_TO_WATCH
DefaultUrl == <<"h", "t", "t", "p", "s", ":", "/", "/", "e", "x", "a", "m",
                "p", "l", "e", ".", "c", "o", "m">>
DefaultIntervalMs == 60000
RequestTimeoutMs == 15000

\* ------------------------------------------------- configuration (module body)
\* The text of process.env.NOTIFIERS, given by what JSON.parse makes of it:
\* the parsed value, or "SyntaxError" when JSON.parse throws.
SyntaxError == [t |-> "SyntaxError", v |-> 0]
JsonText(parsed) == [t |-> "jsontext", v |-> parsed]
JsonParse(text) == text.v

\* One entry of a notifiers object: the notifier's name and its settings.
Entry(name, enabled) == [name |-> name, settings |-> [enabled |-> enabled]]

\* for (const key of Object.keys(notifiers)) notifiers[key].enabled = true;
ForceEnabled(entries) ==
    [i \in 1..Len(entries) |-> [entries[i] EXCEPT !.settings.enabled = TRUE]]

\* if (process.env.URL_TO_WATCH) config.urlToWatch = process.env.URL_TO_WATCH;
ApplyEnvUrl(config, env) ==
    IF Falsy(env.URL_TO_WATCH)
    THEN config
    ELSE [config EXCEPT !.urlToWatch = env.URL_TO_WATCH]

\* !isNaN(interval) && interval > 0, of the parsed CHECK_INTERVAL_MS
EnvIntervalOk(interval) == interval.t /= "NaN" /\ interval.v > 0

\* typeof URL_TO_WATCH !== 'string' || !URL_TO_WATCH.startsWith('http')
UrlRejected(url) == TypeOf(url) /= "string" \/ ~StartsWith(url.v, HTTP)

\* typeof CHECK_INTERVAL_MS !== 'number' || CHECK_INTERVAL_MS <= 0
\* (NaN <= 0 is false)
IntervalRejected(interval) ==
    \/ TypeOf(interval) /= "number"
    \/ (interval.t = "number" /\ interval.v <= 0)

\* config.notifiers && typeof config.notifiers !== 'object'
NotifiersRejected(n) == ~Falsy(n) /\ TypeOf(n) /= "object"

\* Mutant: every notifier of the registry counts as enabled.
IsEnabledAlways(settings) == TRUE

\* settings.enabled === true
IsEnabled(settings) == settings.enabled = TRUE

\* The names pushed to `notifiers`: the entries of config.notifiers whose
\* settings are enabled, in the order of Object.entries.
EnabledNotifiers(n) ==
    IF ~Falsy(n) /\ TypeOf(n) = "object"
    THEN LET entries == n.v
             F[i \in 0..Len(entries)] ==
                 IF i = 0 THEN <<>>
                 ELSE IF IsEnabled(entries[i].settings)
                      THEN Append(F[i - 1], entries[i].name)
                      ELSE F[i - 1]
         IN  F[Len(entries)]
    ELSE <<>>

Returned(why) ==
    [status |-> "return", error |-> why, config |-> Undefined,
     URL_TO_WATCH |-> Undefined, CHECK_INTERVAL_MS |-> Undefined,
     notifiers |-> <<>>]

\* The module body of index.js up to the definition of the functions: the
\* configuration file, the environment's overrides, the validation and the
\* selection of the enabled notifiers.  Each `return` of the body ends the
\* evaluation of the module.
LoadConfig(file, env) ==
    IF ~file.readable THEN Returned("Could not read config.json") ELSE
    LET c1 == ApplyEnvUrl(file.json, env)
        hasInterval == ~Falsy(env.CHECK_INTERVAL_MS)
        interval == IF hasInterval THEN ParseInt(env.CHECK_INTERVAL_MS.v) ELSE NaN
    IN
    IF hasInterval /\ ~EnvIntervalOk(interval)
    THEN Returned("Invalid CHECK_INTERVAL_MS in environment variables") ELSE
    LET c2 == IF hasInterval THEN [c1 EXCEPT !.checkIntervalMs = interval] ELSE c1
        hasNotifiers == ~Falsy(env.NOTIFIERS)
        parsed == IF hasNotifiers THEN JsonParse(env.NOTIFIERS) ELSE Undefined
    IN
    IF hasNotifiers /\ parsed = SyntaxError
    THEN Returned("Error parsing NOTIFIERS from environment variables") ELSE
    IF hasNotifiers /\ TypeOf(parsed) /= "object"
    THEN Returned("Invalid NOTIFIERS in environment variables") ELSE
    LET c3 == IF hasNotifiers
              THEN [c2 EXCEPT !.notifiers = JObj(ForceEnabled(parsed.v))]
              ELSE c2
        url == OrElse(c3.urlToWatch, JStr(DefaultUrl))
        ms == OrElse(c3.checkIntervalMs, JNum(DefaultIntervalMs))
    IN
    IF UrlRejected(url) THEN Returned("Invalid URL_TO_WATCH in config.json") ELSE
    IF IntervalRejected(ms) THEN Returned("Invalid CHECK_INTERVAL_MS in config.json") ELSE
    IF NotifiersRejected(c3.notifiers)
    THEN Returned("Invalid notifiers configuration in config.json") ELSE
    [status |-> "ok", error |-> "", config |-> c3,
     URL_TO_WATCH |-> url, CHECK_INTERVAL_MS |-> ms,
     notifiers |-> EnabledNotifiers(c3.notifiers)]

\* ------------------------------------------------------------ notifier modules
\* The modules that exist under ./notifiers/: require() of any other name
\* throws.
NotifierModules == {"pushbullet", "discord"}
HasModule(name) == name \in NotifierModules

\* color: isCurrentlyUp ? 3066993 : 15158332 (discord.js)
Green == 3066993
Red == 15158332
DiscordColor(isUp) == IF isUp THEN Green ELSE Red

\* send(config, title, body, isCurrentlyUp) of pushbullet.js: one axios.post
\* of a note; isCurrentlyUp is not used.
SendPushbullet(title, body, isUp) ==
    [to |-> "pushbullet", title |-> title, body |-> body, color |-> 0]

\* send(config, title, body, isCurrentlyUp) of discord.js: one axios.post of
\* an embed whose color is chosen by isCurrentlyUp.
SendDiscord(title, body, isUp) ==
    [to |-> "discord", title |-> title, body |-> body, color |-> DiscordColor(isUp)]

\* notifierModule.send(config.notifiers[notifier], title, body, isCurrentlyUp)
Send(name, title, body, isUp) ==
    IF name = "pushbullet" THEN SendPushbullet(title, body, isUp)
    ELSE SendDiscord(title, body, isUp)

\* An axios.post under way: the iteration of sendNotification that made it,
\* what it posts, and "pending" until its promise settles.
Post(attempt, request) ==
    [attempt |-> attempt, request |-> request, state |-> "pending"]

\* ---------------------------------------------------------------- dispatcher
\* Mutant: the error leaves the loop and sendNotification.
Uncaught(rest) == [continue |-> <<>>, thrown |-> TRUE]

\* catch (error) { console.error(...) } inside the loop: the error is logged,
\* nothing is thrown out of sendNotification, and the loop goes on with the
\* notifiers that are left.
CatchError(rest) == [continue |-> rest, thrown |-> FALSE]

\* The line of sendLog for one iteration of the loop.
Attempted(e, name, result, isUp) ==
    [event |-> e, notifier |-> name, result |-> result, status |-> isUp]

\* sendNotification(title, body) for event number e over the notifiers
\* `names`, with isUp the value of isCurrentlyUp while the loop runs; log and
\* posts are sendLog and posts so far.  In each iteration require() of a
\* missing module throws before send is called; otherwise send is called
\* with the value isCurrentlyUp holds at that moment and makes its post.  The
\* send functions return undefined at once, so each `await` resumes in the
\* same run of the microtask queue and no other handler runs in between.
RECURSIVE SendNotification(_, _, _, _, _, _, _)
SendNotification(e, names, title, body, isUp, log, out) ==
    IF names = <<>> THEN [log |-> log, posts |-> out, thrown |-> FALSE]
    ELSE IF HasModule(Head(names))
    THEN SendNotification(e, Tail(names), title, body, isUp,
            Append(log, Attempted(e, Head(names), "sent", isUp)),
            Append(out, Post(Len(log) + 1, Send(Head(names), title, body, isUp))))
    ELSE LET c == CatchError(Tail(names))
             logged == Append(log, Attempted(e, Head(names), "error", isUp))
         IN  IF c.thrown
             THEN [log |-> logged, posts |-> out, thrown |-> TRUE]
             ELSE SendNotification(e, c.continue, title, body, isUp, logged, out)

\* ------------------------------------------------------------------- monitor
\* Mutant: the upper end of the range included.
IsSuccessStatusUpTo300(status) == status >= 200 /\ status <= 300

\* response.status >= 200 && response.status < 300
IsSuccessStatus(status) == status >= 200 /\ status < 300

\* What axios.get can settle with: a response with a status code, or an
\* error (the 15000 ms timeout, a connection or DNS failure).  checkWebsite
\* tests the status of every response it is handed, so responses of every
\* status are outcomes here; an axios that rejects other statuses itself
\* reaches the same catch block.
StatusCodes == {199, 200, 299, 300, 404}
ErrorReasons == {"timeout", "connection-error"}
Response(status) == [kind |-> "response", status |-> status, reason |-> ""]
Failure(reason) == [kind |-> "error", status |-> 0, reason |-> reason]
Outcomes == {Response(s) : s \in StatusCodes} \cup {Failure(r) : r \in ErrorReasons}

\* The branch of checkWebsite an outcome ends in: the [SUCCESS] branch of the
\* try block, or the catch block, which a rejected request and the Error
\* thrown for a non-success status both reach.
Branch(outcome) ==
    IF outcome.kind = "response" /\ IsSuccessStatus(outcome.status)
    THEN "SUCCESS" ELSE "FAILURE"

\* Mutant: the alert gives the same reason for every failure.
ErrorMessageGeneric(outcome) == [text |-> "down", status |-> 0]

\* error.message in the catch block
ErrorMessage(outcome) ==
    IF outcome.kind = "response"
    THEN [text |-> "Received non-success status code", status |-> outcome.status]
    ELSE [text |-> outcome.reason, status |-> 0]

UpTitle == "Website Back Online"
DownTitle == "Website Down Alert"
UpBody(url) == [url |-> url, text |-> "is back up and running", error |-> [text |-> "", status |-> 0]]
DownBody(url, message) == [url |-> url, text |-> "appears to be down", error |-> message]

\* Mutant: the monitor starts as down.
InitialDown == FALSE

\* let isCurrentlyUp = true;
InitialUp == TRUE

\* Mutant: the success branch announces every success.
IsTransitionOrSuccess(branch, isUp) ==
    IF branch = "SUCCESS" THEN TRUE ELSE isUp

\* Mutant: the catch block alerts on every failure.
IsTransitionOrFailure(branch, isUp) ==
    IF branch = "SUCCESS" THEN ~isUp ELSE TRUE

\* if (!isCurrentlyUp) in the success branch, if (isCurrentlyUp) in the catch
\* block: whether the outcome's branch is a transition.
IsTransition(branch, isUp) ==
    IF branch = "SUCCESS" THEN ~isUp ELSE isUp

\* Mutant: the assignment is left out.
NewStateUnchanged(before, after) == before

\* Mutant: both branches assign false.
NewStateAlwaysDown(before, after) == FALSE

\* isCurrentlyUp = true in the success branch, isCurrentlyUp = false in the
\* catch block: the value a transition assigns.
NewState(before, after) == after

\* Mutant: sendNotification is called before the assignment.
SeenBeforeAssignment(before, after) == before

\* isCurrentlyUp is assigned before sendNotification is called, so the
\* dispatcher reads the new value.
SeenByDispatch(before, after) == after

\* -------------------------------------------------------------------- inputs
HttpsA == <<"h", "t", "t", "p", "s", ":", "/", "/", "a">>
HttpsB == <<"h", "t", "t", "p", "s", ":", "/", "/", "b">>
FtpA == <<"f", "t", "p", ":", "/", "/", "a">>

FileJson(url, ms, n) ==
    [readable |-> TRUE,
     json |-> [urlToWatch |-> url, checkIntervalMs |-> ms, notifiers |-> n]]
Unreadable ==
    [readable |-> FALSE,
     json |-> [urlToWatch |-> Undefined, checkIntervalMs |-> Undefined,
               notifiers |-> Undefined]]
Env(url, ms, n) == [URL_TO_WATCH |-> url, CHECK_INTERVAL_MS |-> ms, NOTIFIERS |-> n]

\* Values of config.json's urlToWatch and of the environment's URL_TO_WATCH.
FileUrls == {Undefined, JStr(HttpsA), JStr(FtpA), JNum(42)}
EnvUrls == {Undefined, JStr(HttpsB), JStr(FtpA)}
\* Values of checkIntervalMs and of the environment's CHECK_INTERVAL_MS.
FileIntervals == {Undefined, JNum(0), JNum(-1000), JNum(1000), JStr(<<"1">>)}
EnvIntervals == {Undefined, JStr(<<"a", "b", "c">>), JStr(<<"0">>),
                 JStr(<<"-", "5">>), JStr(<<"2", "0", "0", "0">>)}
\* Notifier registries of config.json; "webhook" names no module.
FileRegistries ==
    {Undefined,
     JObj(<<>>),
     JObj(<<Entry("pushbullet", TRUE), Entry("webhook", FALSE)>>),
     JObj(<<Entry("pushbullet", TRUE), Entry("discord", TRUE)>>),
     JObj(<<Entry("pushbullet", FALSE), Entry("discord", FALSE)>>),
     JObj(<<Entry("webhook", TRUE), Entry("discord", TRUE)>>),
     JObj(<<Entry("discord", TRUE), Entry("webhook", TRUE), Entry("pushbullet", TRUE)>>),
     JStr(<<"x">>)}
\* Values of the environment's NOTIFIERS.
EnvRegistries ==
    {Undefined,
     JsonText(SyntaxError),
     JsonText(JNum(5)),
     JsonText(JObj(<<Entry("discord", FALSE), Entry("pushbullet", TRUE)>>)),
     JsonText(JObj(<<Entry("webhook", FALSE), Entry("discord", TRUE)>>))}
\* How index.js is run: `node index.js` (require.main === module) or
\* require('./index') from another program.
Modes == {"cli", "library"}

\* Every combination of the values above.
AllInputs ==
    [mode : Modes,
     file : {Unreadable} \cup
            {FileJson(u, ms, n) : u \in FileUrls, ms \in FileIntervals,
                                  n \in FileRegistries},
     env : {Env(u, ms, n) : u \in EnvUrls, ms \in EnvIntervals,
                            n \in EnvRegistries}]

\* The inputs of the monitoring runs: a valid URL and interval, with every
\* object registry of config.json when NOTIFIERS is unset, and one registry
\* of config.json under every NOTIFIERS that is an object.
OverriddenRegistry == JObj(<<Entry("pushbullet", TRUE), Entry("webhook", FALSE)>>)
RunInputs ==
    [mode : Modes,
     file : {FileJson(JStr(HttpsA), JNum(1000), n) :
                n \in {r \in FileRegistries : TypeOf(r) /= "string"}},
     env : {Env(Undefined, Undefined, Undefined)}]
    \cup
    [mode : Modes,
     file : {FileJson(JStr(HttpsA), JNum(1000), OverriddenRegistry)},
     env : {Env(Undefined, Undefined, n) :
                n \in {r \in EnvRegistries :
                          ~Falsy(r) /\ TypeOf(JsonParse(r)) = "object"}}]

\* The arguments a library caller passes to startMonitoring; Undefined
\* stands for an omitted argument.
LibraryArgs ==
    {[url |-> Undefined, interval |-> Undefined],
     [url |-> JStr(HttpsB), interval |-> JNum(5000)]}

\* --------------------------------------------------------------------- state
VARIABLES
    input,              \* the configuration file, environment and run mode
    pc,                 \* "init", "returned", "loaded" or "running"
    exited, exitCode,   \* whether the process has ended, and its exit code
    config,             \* config after the environment's overrides
    URL_TO_WATCH, CHECK_INTERVAL_MS,
    notifiers,          \* names of the enabled notifiers
    isCurrentlyUp,
    monitor,            \* the parameters url and interval of startMonitoring
    timer,              \* the interval given to setInterval
    started,            \* number of calls of checkWebsite so far
    pending,            \* requests of axios.get that have not settled
    probeLog,           \* the [SUCCESS] / [FAILURE] lines, in order
    events,             \* the calls of sendNotification, in order
    sendLog,            \* the iterations of the loop of sendNotification
    posts               \* the calls of axios.post made by the notifier modules

vars == <<input, pc, exited, exitCode, config, URL_TO_WATCH, CHECK_INTERVAL_MS,
          notifiers, isCurrentlyUp, monitor, timer, started, pending,
          probeLog, events, sendLog, posts>>

InitWith(inputs) ==
    /\ input \in inputs
    /\ pc = "init"
    /\ exited = FALSE
    /\ exitCode = 0
    /\ config = Undefined
    /\ URL_TO_WATCH = Undefined
    /\ CHECK_INTERVAL_MS = Undefined
    /\ notifiers = <<>>
    /\ isCurrentlyUp = InitialUp
    /\ monitor = [url |-> Undefined, interval |-> Undefined]
    /\ timer = Undefined
    /\ started = 0
    /\ pending = {}
    /\ probeLog = <<>>
    /\ events = <<>>
    /\ sendLog = <<>>
    /\ posts = <<>>

Init == InitWith(RunInputs)
InitStartup == InitWith(AllInputs)

\* The part of checkWebsite that runs before its await: the request of
\* axios.get(URL_TO_WATCH, { timeout: 15000 }) is under way.
Request(id, url) == [id |-> id, url |-> url, timeout |-> RequestTimeoutMs]

\* The url checkWebsite requests.
ProbeTarget(url, watched) == watched

\* startMonitoring(url = URL_TO_WATCH, interval = CHECK_INTERVAL_MS): one
\* call of checkWebsite at once, then setInterval(checkWebsite, interval).
StartMonitoringWith(url, interval, watched, defaultMs) ==
    LET u == IF url = Undefined THEN watched ELSE url
        ms == IF interval = Undefined THEN defaultMs ELSE interval
    IN  /\ monitor' = [url |-> u, interval |-> ms]
        /\ started' = started + 1
        /\ pending' = pending \cup {Request(started + 1, ProbeTarget(u, watched))}
        /\ timer' = ms
        /\ pc' = "running"

\* The evaluation of the module index.js.
LoadModule ==
    /\ pc = "init"
    /\ LET r == LoadConfig(input.file, input.env) IN
       /\ config' = r.config
       /\ URL_TO_WATCH' = r.URL_TO_WATCH
       /\ CHECK_INTERVAL_MS' = r.CHECK_INTERVAL_MS
       /\ notifiers' = r.notifiers
       /\ IF r.status = "return"
          THEN \* `return` from the module body: nothing is exported and
               \* nothing is scheduled; run as a program, the process ends
               \* with nothing left to do, which is exit code 0.
               /\ pc' = "returned"
               /\ exited' = (input.mode = "cli")
               /\ exitCode' = 0
               /\ UNCHANGED <<monitor, timer, started, pending>>
          ELSE IF input.mode = "cli"
          THEN \* if (require.main === module) startMonitoring();
               /\ StartMonitoringWith(Undefined, Undefined,
                                      r.URL_TO_WATCH, r.CHECK_INTERVAL_MS)
               /\ UNCHANGED <<exited, exitCode>>
          ELSE /\ pc' = "loaded"
               /\ UNCHANGED <<exited, exitCode, monitor, timer, started, pending>>
    /\ UNCHANGED <<input, isCurrentlyUp, probeLog, events, sendLog, posts>>

\* A program that required index.js calls the exported startMonitoring.
StartMonitoring(url, interval) ==
    /\ pc = "loaded"
    /\ StartMonitoringWith(url, interval, URL_TO_WATCH, CHECK_INTERVAL_MS)
    /\ UNCHANGED <<input, exited, exitCode, config, URL_TO_WATCH,
                   CHECK_INTERVAL_MS, notifiers, isCurrentlyUp, probeLog,
                   events, sendLog, posts>>

\* Mutant: a tick is skipped while an earlier probe is under way.
CanStartWhenIdle(inFlight) == inFlight = {}

\* setInterval(checkWebsite, interval) calls checkWebsite at every tick; the
\* callback tests nothing about the probes in flight before it starts one.
CanStart(inFlight) == TRUE

\* The timer of setInterval fires: checkWebsite runs up to its await.
Tick ==
    /\ pc = "running"
    /\ timer /= Undefined
    /\ CanStart(pending)
    /\ started < MaxProbes
    /\ Cardinality(pending) < MaxInFlight
    /\ started' = started + 1
    /\ pending' = pending \cup {Request(started + 1, ProbeTarget(monitor.url, URL_TO_WATCH))}
    /\ UNCHANGED <<input, pc, exited, exitCode, config, URL_TO_WATCH,
                   CHECK_INTERVAL_MS, notifiers, isCurrentlyUp, monitor, timer,
                   probeLog, events, sendLog, posts>>

\* The request of probe p settles with `outcome`: checkWebsite resumes after
\* its await and runs to its end, sendNotification included.
Complete(p, outcome) ==
    /\ p \in pending
    /\ pending' = pending \ {p}
    /\ LET branch == Branch(outcome)
           before == isCurrentlyUp
           after == (branch = "SUCCESS")
           e == Len(events) + 1
           title == IF after THEN UpTitle ELSE DownTitle
           body == IF after THEN UpBody(URL_TO_WATCH)
                   ELSE DownBody(URL_TO_WATCH, ErrorMessage(outcome))
       IN  /\ probeLog' = Append(probeLog,
                [id |-> p.id, target |-> p.url, outcome |-> outcome,
                 line |-> branch, was |-> before])
           /\ IF IsTransition(branch, before)
              THEN LET d == SendNotification(e, notifiers, title, body,
                                SeenByDispatch(before, after), sendLog, posts)
                   IN  /\ isCurrentlyUp' = NewState(before, after)
                       /\ events' = Append(events,
                            [title |-> title, body |-> body,
                             probe |-> Len(probeLog) + 1, rejected |-> d.thrown])
                       /\ sendLog' = d.log
                       /\ posts' = d.posts
              ELSE UNCHANGED <<isCurrentlyUp, events, sendLog, posts>>
    /\ UNCHANGED <<input, pc, exited, exitCode, config, URL_TO_WATCH,
                   CHECK_INTERVAL_MS, notifiers, monitor, timer, started>>

\* Mutant: the .catch callback posts again.
SettledWithRetry(ps, i, result) ==
    IF result = "failed"
    THEN Append([ps EXCEPT ![i].state = result], Post(ps[i].attempt, ps[i].request))
    ELSE [ps EXCEPT ![i].state = result]

\* .then(response => console.log(...)) and .catch(error => console.error(...))
\* of a notifier module: the result is logged and nothing else is done.
Settled(ps, i, result) == [ps EXCEPT ![i].state = result]

\* Mutant: the .catch callback of a post puts the state back to up.
PostSettleResets(i, result) ==
    /\ i \in 1..Len(posts)
    /\ posts[i].state = "pending"
    /\ posts' = Settled(posts, i, result)
    /\ isCurrentlyUp' = IF result = "failed" THEN TRUE ELSE isCurrentlyUp
    /\ UNCHANGED <<input, pc, exited, exitCode, config, URL_TO_WATCH,
                   CHECK_INTERVAL_MS, notifiers, monitor, timer,
                   started, pending, probeLog, events, sendLog>>

\* The promise of post i settles: the .then or .catch callback of the
\* notifier module logs the result.
PostSettle(i, result) ==
    /\ i \in 1..Len(posts)
    /\ posts[i].state = "pending"
    /\ posts' = Settled(posts, i, result)
    /\ UNCHANGED <<input, pc, exited, exitCode, config, URL_TO_WATCH,
                   CHECK_INTERVAL_MS, notifiers, isCurrentlyUp, monitor, timer,
                   started, pending, probeLog, events, sendLog>>

\* Monitoring: startup, the timer, and the probes with every outcome.  The
\* callbacks of the posts, which only log, are left to SpecDelivery; here the
\* posts stay as the notifier modules made them.
Next ==
    \/ LoadModule
    \/ \E a \in LibraryArgs : StartMonitoring(a.url, a.interval)
    \/ Tick
    \/ \E p \in pending, o \in Outcomes : Complete(p, o)

Spec == Init /\ [][Next]_vars

\* Startup alone, over every combination of configuration inputs.
NextStartup ==
    \/ LoadModule
    \/ \E a \in LibraryArgs : StartMonitoring(a.url, a.interval)
    \/ Tick

SpecStartup == InitStartup /\ [][NextStartup]_vars

\* Delivery: monitoring with the settling of the posts, run as a program over
\* the registries that enable several notifiers, the probes answering 200 or
\* timing out.
DeliveryInputs ==
    {i \in RunInputs : i.mode = "cli" /\ Len(LoadConfig(i.file, i.env).notifiers) >= 2}
DeliveryOutcomes == {Response(200), Failure("timeout")}

InitDelivery == InitWith(DeliveryInputs)

NextDelivery ==
    \/ LoadModule
    \/ Tick
    \/ \E p \in pending, o \in DeliveryOutcomes : Complete(p, o)
    \/ \E i \in 1..Len(posts), r \in {"ok", "failed"} : PostSettle(i, r)

SpecDelivery == InitDelivery /\ [][NextDelivery]_vars

\* -------------------------------------------------------------------- claims
\* The classification the specification gives an outcome: up exactly when a
\* response was received whose status code lies in [200, 300).
ClassifiedUp(outcome) ==
    outcome.kind = "response" /\ outcome.status \in 200..299

\* The events dispatched on the completion probeLog[i].
EventsOf(i) == {k \in 1..Len(events) : events[k].probe = i}

\* The classification that precedes completion i: that of completion i - 1,
\* or Up at the start.
PrecedingUp(i) == IF i = 1 THEN TRUE ELSE ClassifiedUp(probeLog[i - 1].outcome)

\* C1: a probe completion dispatches a notification exactly when the
\* classification of its outcome differs from the value isCurrentlyUp held
\* just before it, and never more than one; the number of notifications is
\* the number of changes of classification along the completions, starting
\* from Up.
C1_NotifyIffChanged ==
    /\ \A i \in 1..Len(probeLog) :
          Cardinality(EventsOf(i)) =
             IF ClassifiedUp(probeLog[i].outcome) /= probeLog[i].was THEN 1 ELSE 0
    /\ Len(events) =
          Cardinality({i \in 1..Len(probeLog) :
                          ClassifiedUp(probeLog[i].outcome) /= PrecedingUp(i)})

\* Three completions classified up, down, up have dispatched two events.
C1_Witness ==
    /\ Len(probeLog) = 3
    /\ ClassifiedUp(probeLog[1].outcome)
    /\ ~ClassifiedUp(probeLog[2].outcome)
    /\ ClassifiedUp(probeLog[3].outcome)
    /\ Len(events) = 2

CompletionsOf(n) == {i \in 1..Len(probeLog) : probeLog[i].id = n}

\* C3: a completion is logged [SUCCESS] exactly when a response was received
\* with 200 <= status < 300, and [FAILURE] for every other outcome, the
\* timeout included; every request carries the 15000 ms timeout, and every
\* probe started is either still waiting for its outcome or has completed
\* exactly once.
C3_Classification ==
    /\ \A i \in 1..Len(probeLog) :
          /\ probeLog[i].line \in {"SUCCESS", "FAILURE"}
          /\ probeLog[i].line = "SUCCESS" <=>
                /\ probeLog[i].outcome.kind = "response"
                /\ probeLog[i].outcome.status >= 200
                /\ probeLog[i].outcome.status < 300
    /\ \A p \in pending : p.timeout = 15000
    /\ \A n \in 1..started :
          IF \E p \in pending : p.id = n
          THEN CompletionsOf(n) = {}
          ELSE Cardinality(CompletionsOf(n)) = 1

\* A timeout, a 299 and a 300 have completed: down, up, down.
C3_Witness ==
    /\ Len(probeLog) = 3
    /\ probeLog[1].outcome = Failure("timeout") /\ probeLog[1].line = "FAILURE"
    /\ probeLog[2].outcome = Response(299) /\ probeLog[2].line = "SUCCESS"
    /\ probeLog[3].outcome = Response(300) /\ probeLog[3].line = "FAILURE"
    /\ pending = {}

\* Whether iteration i of sendLog failed: its module could not be loaded, or
\* the post its send made has settled as failed.
FailedAttempt(i) ==
    \/ sendLog[i].result = "error"
    \/ \E j \in 1..Len(posts) : posts[j].attempt = i /\ posts[j].state = "failed"

\* The index in sendLog of the first iteration of event e.
FirstAttempt(e) == CHOOSE i \in 1..Len(sendLog) :
    /\ sendLog[i].event = e
    /\ \A j \in 1..(i - 1) : sendLog[j].event /= e

\* C4: when the loading or the send of the k-th enabled notifier fails, the
\* notifiers k+1..N are attempted all the same, for every k and every set of
\* failing notifiers, and the promise of sendNotification is never rejected:
\* the checkWebsite that called it has logged its line.
C4_FailureIsolated ==
    /\ \A i \in 1..Len(sendLog) :
          FailedAttempt(i) =>
             LET e == sendLog[i].event
                 first == FirstAttempt(e)
                 k == i - first + 1
             IN  /\ sendLog[i].notifier = notifiers[k]
                 /\ \A j \in (k + 1)..Len(notifiers) :
                       /\ first + j - 1 <= Len(sendLog)
                       /\ sendLog[first + j - 1].event = e
                       /\ sendLog[first + j - 1].notifier = notifiers[j]
    /\ \A e \in 1..Len(events) :
          /\ ~events[e].rejected
          /\ events[e].probe \in 1..Len(probeLog)

\* discord's post has failed, webhook could not be loaded, and pushbullet,
\* the third notifier, has been sent the event all the same.
C4_Witness ==
    /\ notifiers = <<"discord", "webhook", "pushbullet">>
    /\ Len(sendLog) = 3
    /\ \E j \in 1..Len(posts) : posts[j].attempt = 1 /\ posts[j].state = "failed"
    /\ sendLog[2].result = "error"
    /\ sendLog[3].result = "sent" /\ sendLog[3].notifier = "pushbullet"

\* The names the registry config.notifiers holds as enabled.
RegistryEnabled ==
    IF pc \in {"init", "returned"} \/ Falsy(config.notifiers) THEN {}
    ELSE {config.notifiers.v[i].name : i \in
            {j \in 1..Len(config.notifiers.v) :
                config.notifiers.v[j].settings.enabled = TRUE}}

\* The calls of send made for event e on notifier n.
SendsOf(e, n) ==
    {i \in 1..Len(sendLog) :
        sendLog[i].event = e /\ sendLog[i].notifier = n /\ sendLog[i].result = "sent"}

\* C5: for every dispatched event, every notifier enabled in the registry
\* has its send called exactly once.
C5_EachEnabledSentOnce ==
    \A e \in 1..Len(events) : \A n \in RegistryEnabled :
        Cardinality(SendsOf(e, n)) = 1

\* C6: a notifier that the registry does not hold as enabled is never
\* loaded, sent to or posted for; when no notifier is enabled a dispatch logs
\* no iteration, makes no post and rejects nothing; and with the registry
\* {pushbullet: enabled, webhook: disabled} every event makes exactly one
\* send, to pushbullet.
C6_DisabledNeverSent ==
    /\ \A i \in 1..Len(sendLog) : sendLog[i].notifier \in RegistryEnabled
    /\ \A j \in 1..Len(posts) : posts[j].request.to \in RegistryEnabled
    /\ RegistryEnabled = {} =>
          /\ sendLog = <<>> /\ posts = <<>>
          /\ \A e \in 1..Len(events) : ~events[e].rejected
    /\ (pc = "running" /\ config.notifiers = OverriddenRegistry) =>
          \A e \in 1..Len(events) :
             /\ Cardinality(SendsOf(e, "pushbullet")) = 1
             /\ \A i \in 1..Len(sendLog) : sendLog[i].notifier /= "webhook"

\* With {pushbullet: enabled, webhook: disabled} a down transition has made
\* its one send, to pushbullet.
C6_Witness ==
    /\ pc = "running"
    /\ config.notifiers = OverriddenRegistry
    /\ Len(events) = 1 /\ events[1].title = DownTitle
    /\ Len(sendLog) = 1
    /\ sendLog[1].notifier = "pushbullet" /\ sendLog[1].result = "sent"
    /\ Len(posts) = 1

\* Whether event e is a Down-to-Up event, by the outcome of the probe that
\* caused it.
IsNowUp(e) == ClassifiedUp(probeLog[events[e].probe].outcome)

\* C7: every iteration of the loop passes as status the isNowUp value of its
\* own event, and discord's post carries the matching color, whatever
\* isCurrentlyUp has become since through later probes.
C7_StatusOfEvent ==
    /\ \A i \in 1..Len(sendLog) : sendLog[i].status = IsNowUp(sendLog[i].event)
    /\ \A j \in 1..Len(posts) :
          posts[j].request.to = "discord" =>
             posts[j].request.color =
                IF IsNowUp(sendLog[posts[j].attempt].event) THEN 3066993 ELSE 15158332

\* Probe 2 overtook probe 1: it failed and its down event went to two
\* notifiers with status false; probe 1 then succeeded, so isCurrentlyUp is
\* true again.
C7_Witness ==
    /\ Len(probeLog) = 2
    /\ probeLog[1].id = 2 /\ probeLog[2].id = 1
    /\ Len(events) = 2 /\ ~IsNowUp(1) /\ IsNowUp(2)
    /\ Len(notifiers) >= 2
    /\ sendLog[2].event = 1 /\ sendLog[2].status = FALSE
    /\ sendLog[2].notifier = "discord"
    /\ isCurrentlyUp

\* C8: every probe started by startMonitoring(url, interval) requests the
\* url given as its first argument, and the timer runs at the interval given
\* as its second.
C8_ProbesTargetArgument ==
    pc = "running" =>
        /\ \A p \in pending : p.url = monitor.url
        /\ timer = monitor.interval

\* The target URL and the check interval the configuration supplies: the
\* environment's value when it is set, otherwise config.json's, otherwise
\* the built-in default.
SuppliedUrl ==
    IF ~Falsy(input.env.URL_TO_WATCH) THEN input.env.URL_TO_WATCH
    ELSE IF input.file.readable /\ input.file.json.urlToWatch /= Undefined
    THEN input.file.json.urlToWatch
    ELSE JStr(DefaultUrl)
SuppliedInterval ==
    IF ~Falsy(input.env.CHECK_INTERVAL_MS)
    THEN ParseInt(input.env.CHECK_INTERVAL_MS.v)
    ELSE IF input.file.readable /\ input.file.json.checkIntervalMs /= Undefined
    THEN input.file.json.checkIntervalMs
    ELSE JNum(DefaultIntervalMs)

\* An absolute http or https URL.
IsHttpUrl(u) ==
    /\ u.t = "string"
    /\ \/ StartsWith(u.v, <<"h", "t", "t", "p", ":", "/", "/">>) /\ Len(u.v) > 7
       \/ StartsWith(u.v, <<"h", "t", "t", "p", "s", ":", "/", "/">>) /\ Len(u.v) > 8

InvalidConfiguration ==
    \/ ~IsHttpUrl(SuppliedUrl)
    \/ (SuppliedInterval.t = "number" /\ SuppliedInterval.v <= 0)

\* C9: run as a program with an invalid target URL or a non-positive check
\* interval, the process ends at startup with exit code 1 and starts no
\* probe; the monitoring loop is reached only with a valid configuration.
C9_FailFast ==
    (input.mode = "cli" /\ InvalidConfiguration /\ pc /= "init") =>
        /\ pc = "returned"
        /\ exited
        /\ exitCode = 1
        /\ started = 0

\* C10: a configured notifier name without a module is rejected at startup,
\* so the monitoring loop never runs with such a name enabled and no
\* iteration of a dispatch fails to load its module.
C10_UnknownRejectedAtStartup ==
    /\ pc \in {"loaded", "running"} =>
          \A k \in 1..Len(notifiers) : HasModule(notifiers[k])
    /\ \A i \in 1..Len(sendLog) : sendLog[i].result /= "error"

\* The posts made by iteration i of sendLog.
PostsOf(i) == {j \in 1..Len(posts) : posts[j].attempt = i}

\* C11: every call of a notifier's send makes exactly one post, whether that
\* post is still under way, has succeeded or has failed, and a failed load
\* makes none; so no event holds more than one post for the same notifier.
C11_OnePostPerSend ==
    /\ \A i \in 1..Len(sendLog) :
          Cardinality(PostsOf(i)) = IF sendLog[i].result = "sent" THEN 1 ELSE 0
    /\ \A j \in 1..Len(posts) : posts[j].attempt \in 1..Len(sendLog)
    /\ \A j, k \in 1..Len(posts) :
          (/\ sendLog[posts[j].attempt].event = sendLog[posts[k].attempt].event
           /\ posts[j].request.to = posts[k].request.to) => j = k

\* Both posts of the first event have settled, pushbullet's as failed, and
\* there are still just the two of them.
C11_Witness ==
    /\ notifiers = <<"pushbullet", "discord">>
    /\ Len(events) = 1
    /\ Len(posts) = 2
    /\ posts[1].request.to = "pushbullet" /\ posts[1].state = "failed"
    /\ posts[2].request.to = "discord" /\ posts[2].state = "ok"

\* The new state an event announces, by its title.
AnnouncesUp(e) == events[e].title = UpTitle

\* C12: the first notifier of every dispatch is invoked with isCurrentlyUp
\* already holding the event's new state, and a completion that classifies
\* like the completion before it dispatches nothing, whatever has become of
\* the posts of the earlier dispatch.
C12_StateWrittenBeforeDispatch ==
    /\ \A e \in 1..Len(events) :
          (\E i \in 1..Len(sendLog) : sendLog[i].event = e) =>
             sendLog[FirstAttempt(e)].status = AnnouncesUp(e)
    /\ \A i \in 2..Len(probeLog) :
          ClassifiedUp(probeLog[i].outcome) = ClassifiedUp(probeLog[i - 1].outcome)
             => EventsOf(i) = {}

\* The down event's first post has failed and its second is still under
\* way; the next probe failed too and dispatched nothing.
C12_Witness ==
    /\ Len(probeLog) = 2
    /\ ~ClassifiedUp(probeLog[1].outcome) /\ ~ClassifiedUp(probeLog[2].outcome)
    /\ Len(events) = 1
    /\ Len(posts) = 2
    /\ posts[1].state = "failed" /\ posts[2].state = "pending"
    /\ sendLog[1].status = FALSE

\* C13: whatever the order in which overlapping probes complete, the
\* events dispatched alternate strictly, down, up, down, ..., starting with
\* down: no two events in a row have the same direction.
C13_EventsAlternate ==
    /\ \A e \in 1..Len(events) :
          events[e].title = IF e % 2 = 1 THEN DownTitle ELSE UpTitle
    /\ \A e \in 2..Len(events) : events[e].title /= events[e - 1].title

\* Probe 2 was started while probe 1 was under way and completed first;
\* three events, down, up, down, have been dispatched.
C13_Witness ==
    /\ Len(probeLog) = 3
    /\ probeLog[1].id = 2 /\ probeLog[2].id = 1 /\ probeLog[3].id = 3
    /\ Len(events) = 3
    /\ events[1].title = DownTitle
    /\ events[2].title = UpTitle
    /\ events[3].title = DownTitle

\* C14: once startMonitoring has run, the first probe has been started and
\* the timer stays set; at every later moment the next tick can start a probe
\* (up to the bounds MaxProbes and MaxInFlight of this model), whether or not
\* earlier probes or posts have completed and whatever their outcomes were.
C14_ProbeLoopNeverStops ==
    /\ pc = "running" =>
          /\ started >= 1
          /\ timer = monitor.interval
          /\ ~exited
    /\ (pc = "running" /\ started < MaxProbes /\ Cardinality(pending) < MaxInFlight)
          => ENABLED Tick

\* Probe 1 failed, its dispatch met a module that does not load, one post
\* failed and another is still pending; probes 2 and 3 were started all the
\* same and are both under way.
C14_Witness ==
    /\ started = 3
    /\ Len(probeLog) = 1
    /\ ~ClassifiedUp(probeLog[1].outcome)
    /\ Cardinality(pending) = 2
    /\ \E i \in 1..Len(sendLog) : sendLog[i].result = "error"
    /\ \E j \in 1..Len(posts) : posts[j].state = "failed"
    /\ \E j \in 1..Len(posts) : posts[j].state = "pending"

\* C15: a step changes isCurrentlyUp only when it is the completion of a
\* probe that dispatches an event, and then the new value is the
\* classification of that probe; a step in which a post settles, with success
\* or with failure, and a dispatch whose sends fail or stay pending, leave
\* isCurrentlyUp as the transition branch set it.
C15_OnlyTransitionsWriteState ==
    [][ /\ isCurrentlyUp' /= isCurrentlyUp =>
              /\ Len(probeLog') = Len(probeLog) + 1
              /\ Len(events') = Len(events) + 1
              /\ isCurrentlyUp' = ClassifiedUp(probeLog'[Len(probeLog')].outcome)
        /\ Len(events') = Len(events) + 1 =>
              isCurrentlyUp' = (events'[Len(events')].title = UpTitle)
        /\ (posts' /= posts /\ probeLog' = probeLog) =>
              isCurrentlyUp' = isCurrentlyUp
      ]_vars

\* The site is down and one event was dispatched; of its posts one has
\* succeeded, one has failed, and the send to a module that does not load
\* threw: the state is still down.
C15_Witness ==
    /\ ~isCurrentlyUp
    /\ Len(events) = 1
    /\ \E i \in 1..Len(sendLog) : sendLog[i].result = "error"
    /\ \E j \in 1..Len(posts) : posts[j].state = "failed"
    /\ \E j \in 1..Len(posts) : posts[j].state = "ok"
    /\ pending /= {}

\* The posts made for event e.
PostsFor(e) == {j \in 1..Len(posts) : sendLog[posts[j].attempt].event = e}

\* C16: an event caused by a probe classified down after an up state has the
\* title 'Website Down Alert' and a body with the URL that probe requested
\* and the reason that probe failed for (the error of the request, or the
\* status code that was not a success); an event caused by a probe classified
\* up has the title 'Website Back Online' and a body with the URL that probe
\* requested; every post of the event carries that title and that body.
C16_ContentMatchesDirection ==
    \A e \in 1..Len(events) :
       LET cause == probeLog[events[e].probe] IN
       /\ events[e].body.url = cause.target
       /\ IF ClassifiedUp(cause.outcome)
          THEN /\ ~cause.was
               /\ events[e].title = "Website Back Online"
          ELSE /\ cause.was
               /\ events[e].title = "Website Down Alert"
               /\ IF cause.outcome.kind = "error"
                  THEN events[e].body.error.text = cause.outcome.reason
                  ELSE events[e].body.error.status = cause.outcome.status
       /\ \A j \in PostsFor(e) :
             /\ posts[j].request.title = events[e].title
             /\ posts[j].request.body = events[e].body

\* A response with status 404 took the site down, a timeout was found while
\* it was down, and a response with status 200 brought it back: two events,
\* each with a post.
C16_Witness ==
    /\ Len(probeLog) = 3
    /\ probeLog[1].outcome = Response(404)
    /\ probeLog[2].outcome = Failure("timeout")
    /\ probeLog[3].outcome = Response(200)
    /\ Len(events) = 2
    /\ events[1].body.error.status = 404
    /\ PostsFor(1) /= {} /\ PostsFor(2) /= {}

\* C17: in every state isCurrentlyUp is the classification of the probe that
\* completed last, whatever the order the probes were started in, and up
\* while no probe has completed.
C17_StateIsLastCompleted ==
    isCurrentlyUp = IF probeLog = <<>> THEN TRUE
                    ELSE ClassifiedUp(probeLog[Len(probeLog)].outcome)

\* Probe 2 overtook probe 1: it completed first, classified down, and probe 1
\* completed after it, classified up; the state is up, the classification of
\* probe 1.
C17_Witness ==
    /\ Len(probeLog) = 2
    /\ probeLog[1].id = 2 /\ ~ClassifiedUp(probeLog[1].outcome)
    /\ probeLog[2].id = 1 /\ ClassifiedUp(probeLog[2].outcome)
    /\ isCurrentlyUp

\* The entries of the registry the environment's NOTIFIERS lists.
EnvListed == JsonParse(input.env.NOTIFIERS).v

\* C18: when NOTIFIERS is set and the module has loaded, config.notifiers
\* holds the entries of NOTIFIERS and none of config.json, every one of them
\* enabled whatever flag it carried; the notifiers are all the names listed;
\* and every event has exactly one send to each name listed.
C18_EnvRegistrySentEveryTransition ==
    (pc \in {"loaded", "running"} /\ ~Falsy(input.env.NOTIFIERS)) =>
       /\ Len(config.notifiers.v) = Len(EnvListed)
       /\ \A i \in 1..Len(EnvListed) :
             /\ config.notifiers.v[i].name = EnvListed[i].name
             /\ config.notifiers.v[i].settings.enabled = TRUE
       /\ notifiers = [i \in 1..Len(EnvListed) |-> EnvListed[i].name]
       /\ \A e \in 1..Len(events) : \A i \in 1..Len(EnvListed) :
             Cardinality(SendsOf(e, EnvListed[i].name)) = 1

====
